---- MODULE Spec2Model ----
(***************************************************************************)
(* Panasonic Aquarea integration: the coordinator's poll cycle             *)
(* (custom_components/panasonic_aquarea/__init__.py) and the optimistic    *)
(* commands of the climate and water-heater entities (climate.py,          *)
(* water_heater.py).                                                       *)
(*                                                                         *)
(* Representation.  A Python dict is a function whose DOMAIN is its key    *)
(* set ("k in d" is k \in DOMAIN d).  A Python number that denotes degrees *)
(* Celsius (a float) is represented in hundredths of a degree, so 21.55 C  *)
(* is 2155 and the tank's 60 is 6000.  The zone fields temperatureNow and  *)
(* heatSet of the raw status are integers in tenths of a degree and are    *)
(* kept as they are (49 is 4.9 C).  An optional value (None or a value) is *)
(* a sequence of length 0 or 1.                                            *)
(***************************************************************************)
EXTENDS Integers, Sequences, FiniteSets, TLC

VARIABLES
    data,        \* coordinator.data: dict device_id -> device entry
    acc,         \* devices_data being built by the running _async_update_data
    todo,        \* devices_info still to be fetched by the running poll
    polling,     \* TRUE while _async_update_data is running
    refreshReq,  \* async_request_refresh() has been called and not yet served
    remote,      \* the state held by the remote service, per device
    shape,       \* what the aioaquarea device object of each device offers
    captured,    \* module global _captured_json_responses
    pending,     \* AquareaWaterHeater._pending_temperature, per entity
    cmd,         \* the running command coroutine of each entity
    calls,       \* remote operations invoked by each entity's latest command
    ha,          \* the state each entity last wrote with async_write_ha_state
    last,        \* outcome of each entity's latest command (observation)
    cycle,       \* what the latest finished poll cycle saw (observation)
    budget,      \* poll cycles, commands and remote-side changes still allowed
    preset       \* special modes enabled at the remote device, and the running
                 \* async_set_preset_mode calls, per device

vars == <<data, acc, todo, polling, refreshReq, remote, shape, captured,
          pending, cmd, calls, ha, last, cycle, budget, preset>>

----------------------------------------------------------------------------
(* Bounds of the model *)

MaxPolls == 2
MaxCmds == 1
MaxHeaterCmds == 2
MaxRepeatPolls == 1
MaxChanges == 1
MaxTimeoutPolls == 1
MaxCommandPolls == 2
MaxZonePolls == 1
MaxModePolls == 1
MaxModeCmds == 2
MaxPresetPolls == 1
MaxPresetCalls == 2
MaxPowerPolls == 1

(* Program constants *)

ZONE_MIN == -5
ZONE_MAX == 30
TANK_MIN == 40
TANK_MAX == 75
DEFAULT_TEMP_NOW == 200
SETTLE_DEFAULT == 1
SETTLE_TANK_TEMP == 2
ECO_TEMP == 55
COMFORT_TEMP == 65
STANDBY_POWER == 50
HEAT_POWER == 1500
HEAT_POWER_PER_DUTY == 500
COOL_POWER == 1200
COOL_POWER_PER_DUTY == 400
OTHER_POWER == 800
HEATER_POWER == 3000

Deg(x) == x * 100

Dev == {"A", "B"}
DevOrder == <<"A", "B">>

\* One climate entity (zone 1) and one water heater entity per device.
Ent == Dev \X {"climate", "heater"}
ZoneId(e) == 1

None == << >>
Some(x) == <<x>>

----------------------------------------------------------------------------
(* dict helpers *)

Has(d, k) == k \in DOMAIN d

Get(d, k, default) == IF k \in DOMAIN d THEN d[k] ELSE default

Put(d, k, v) == [x \in DOMAIN d \cup {k} |-> IF x = k THEN v ELSE d[x]]

EmptyDict == [x \in {} |-> 0]

----------------------------------------------------------------------------
(* The remote service and the aioaquarea device object *)

\* Names the code probes with hasattr(); "zone." and "tank." mark the methods
\* of device.status.zones[i] and device.status.tank.
ClimateTempDeviceMethods ==
    <<"set_zone_temperature", "set_heating_temperature", "set_target_temperature">>
ClimateTempZoneMethods == <<"zone.set_target_temperature", "zone.set_temperature">>
HvacDeviceMethods == <<"set_operation_mode", "set_hvac_mode", "set_mode">>
TankTempDeviceMethods ==
    <<"set_tank_target_temperature", "set_dhw_target_temperature", "set_temperature">>
TankTempTankMethods == <<"tank.set_target_temperature", "tank.set_temperature">>
TankOnDeviceMethods ==
    <<"set_dhw_operation", "set_tank_operation", "enable_tank", "turn_on_tank">>
TankOnTankMethods == <<"tank.set_operation", "tank.turn_on", "tank.enable">>
TankOffDeviceMethods ==
    <<"set_dhw_operation", "set_tank_operation", "disable_tank", "turn_off_tank">>
TankOffTankMethods == <<"tank.set_operation", "tank.turn_off", "tank.disable">>

\* The method sets a device object may offer: none at all (the case the code's
\* log messages call "No real API available"), or a library that offers
\* device-level and sub-object setters.
MethodSets ==
    { {},
      { "set_zone_temperature", "set_target_temperature", "zone.set_temperature",
        "set_operation_mode", "set_mode",
        "set_tank_target_temperature", "set_dhw_target_temperature",
        "tank.set_target_temperature",
        "set_dhw_operation", "set_tank_operation", "tank.turn_on", "tank.turn_off",
        "set_quiet_mode", "set_powerful_mode", "set_force_heater", "set_holiday_mode",
        "set_eco_mode", "set_comfort_mode" } }

\* src: where _async_update_data finds the JSON document of the device:
\*   "attr": an attribute of the device object holds the response dict,
\*   "log":  only the log handler AquareaLogCapture can capture it,
\*   "none": nowhere, the built-in latest_real_data is used.
\* structured: the device object has .status with .zones and .tank.
\* has_tank, zones: device_info.has_tank and the zone ids device_info.zones
\* declares (the zone manifest).
AllShapes ==
    {s \in [src : {"attr", "log", "none"}, structured : BOOLEAN, methods : MethodSets,
            has_tank : BOOLEAN, zones : {{}, {1}, {1, 2}}, zone2_first : BOOLEAN,
            omits : {{}, {"heatSet"}, {"temperatureNow"}, {"status"}}] :
        s.zone2_first => s.zones = {1, 2}}

\* The devices the entities of Ent belong to: a tank and zone 1.
Shapes == {s \in AllShapes : s.has_tank /\ s.zones = {1} /\ s.omits = {}}

\* Devices with a tank and one or two zones, zone 1 among them.
ZoneShapes == {s \in AllShapes : s.has_tank /\ 1 \in s.zones /\ s.omits = {}}

\* Accounts for the power sensor: responses with and without a status
PowerShapes ==
    {s \in AllShapes : s.has_tank /\ s.zones = {1} /\ s.omits \in {{}, {"status"}}}

\* What the remote service holds for a device (what a status fetch reports).
RemoteInit ==
    [mode |-> 1, zNow |-> 49, zSet |-> 5, zOp |-> 1, tSet |-> Deg(60), tOp |-> 1]

\* The JSON document the remote service returns for state r.
DocOf(r) ==
    [status |->
        [operationMode |-> r.mode,
         zoneStatus |-> <<[zoneId |-> 1, operationStatus |-> r.zOp,
                           temperatureNow |-> r.zNow, heatSet |-> r.zSet]>>,
         tankStatus |-> [operationStatus |-> r.tOp, temperatureNow |-> Deg(61),
                         heatSet |-> r.tSet]]]

\* The structured device.status the library builds from the same remote state.
StructOf(r) ==
    [zones |-> <<[zone_id |-> 1, temperature |-> r.zNow * 10,
                  target_temperature |-> Some((r.zNow + r.zSet) * 10)]>>,
     tank |-> [temperature |-> Some(Deg(61)), target_temperature |-> Some(r.tSet)]]

\* The second zone of a two-zone device; its state is constant.
Zone2Doc == [zoneId |-> 2, operationStatus |-> 0, temperatureNow |-> 180, heatSet |-> 0]

Zone2Struct == [zone_id |-> 2, temperature |-> 1800, target_temperature |-> Some(1800)]

\* The zone list of a device in the order the service lists the zones
Listed(sh, zone1, zone2) ==
    IF 2 \notin sh.zones THEN zone1
    ELSE IF sh.zone2_first THEN zone2 \o zone1 ELSE zone1 \o zone2

\* The device object client.get_device() returns.
DeviceOf(r, sh) ==
    IF sh.structured
    THEN [status |-> [StructOf(r) EXCEPT
                         !.zones = Listed(sh, StructOf(r).zones, <<Zone2Struct>>)]]
    ELSE EmptyDict

\* latest_real_data, the document built into _async_update_data.
LatestRealData ==
    [status |->
        [operationMode |-> 1,
         zoneStatus |-> <<[zoneId |-> 1, operationStatus |-> 1,
                           temperatureNow |-> 49, heatSet |-> 5]>>,
         tankStatus |-> [operationStatus |-> 1, temperatureNow |-> Deg(61),
                         heatSet |-> Deg(60)]]]

----------------------------------------------------------------------------
(* Entity properties *)

\* HVAC_MODE_TO_OPERATION_MODE / mode_map: off, heat, cool, auto
HvacModes == {0, 1, 2, 3}

\* "for zone_status in zoneStatus: if zone_status.get('zoneId') == zone_id"
FindZone(zs, id) ==
    LET hits == {i \in 1..Len(zs) : Get(zs[i], "zoneId", 0) = id}
    IN  IF hits = {} THEN 0 ELSE CHOOSE i \in hits : \A j \in hits : i <= j

\* "for zone in device.status.zones: if zone.zone_id == zone_id"
FindStructZone(zs, id) ==
    LET hits == {i \in 1..Len(zs) : zs[i].zone_id = id}
    IN  IF hits = {} THEN 0 ELSE CHOOSE i \in hits : \A j \in hits : i <= j

HasRawZones(entry) ==
    /\ Has(entry.raw_data, "status")
    /\ Has(entry.raw_data.status, "zoneStatus")

HasRawTank(entry) ==
    /\ Has(entry.raw_data, "status")
    /\ Has(entry.raw_data.status, "tankStatus")

\* AquareaClimate.current_temperature, in hundredths of a degree
ClimateCurrentTemperature(dat, d, id) ==
    IF d \notin DOMAIN dat THEN None
    ELSE
    LET entry == dat[d]
        sz == IF Has(entry.device, "status")
              THEN FindStructZone(entry.device.status.zones, id) ELSE 0
        rz == IF HasRawZones(entry)
              THEN FindZone(entry.raw_data.status.zoneStatus, id) ELSE 0
        z == entry.raw_data.status.zoneStatus[rz]
    IN  IF sz # 0 THEN Some(entry.device.status.zones[sz].temperature)
        ELSE IF rz # 0 /\ Has(z, "temperatureNow") THEN Some(z.temperatureNow * 10)
        ELSE None

\* AquareaTemperatureSensor.native_value, in hundredths of a degree
TemperatureSensorNativeValue(dat, d, id) ==
    IF d \notin DOMAIN dat THEN None
    ELSE
    LET entry == dat[d]
        sz == IF Has(entry.device, "status")
              THEN FindStructZone(entry.device.status.zones, id) ELSE 0
        rz == IF HasRawZones(entry)
              THEN FindZone(entry.raw_data.status.zoneStatus, id) ELSE 0
        z == entry.raw_data.status.zoneStatus[rz]
    IN  IF sz # 0 THEN Some(entry.device.status.zones[sz].temperature)
        ELSE IF rz # 0 /\ Has(z, "temperatureNow") THEN Some(z.temperatureNow * 10)
        ELSE None

\* A target that takes heatSet for the temperature itself
ClimateTargetTemperatureNoOffset(dat, d, id) ==
    IF d \notin DOMAIN dat THEN None
    ELSE
    LET entry == dat[d]
        rz == IF HasRawZones(entry)
              THEN FindZone(entry.raw_data.status.zoneStatus, id) ELSE 0
        z == entry.raw_data.status.zoneStatus[rz]
    IN  IF rz # 0 /\ Has(z, "heatSet") THEN Some(z.heatSet * 10) ELSE None

\* AquareaClimate.target_temperature, in hundredths of a degree
ClimateTargetTemperature(dat, d, id) ==
    IF d \notin DOMAIN dat THEN None
    ELSE
    LET entry == dat[d]
        sz == IF Has(entry.device, "status")
              THEN FindStructZone(entry.device.status.zones, id) ELSE 0
        structured == IF sz = 0 THEN None
                      ELSE entry.device.status.zones[sz].target_temperature
        rz == IF HasRawZones(entry)
              THEN FindZone(entry.raw_data.status.zoneStatus, id) ELSE 0
        z == entry.raw_data.status.zoneStatus[rz]
    IN  IF structured # None THEN structured
        ELSE IF rz # 0 /\ Has(z, "temperatureNow") /\ Has(z, "heatSet")
             THEN Some((z.temperatureNow + z.heatSet) * 10)
        ELSE None

\* AquareaWaterHeater.current_temperature, in hundredths of a degree
HeaterCurrentTemperature(dat, d) ==
    IF d \notin DOMAIN dat THEN None
    ELSE
    LET entry == dat[d]
        structured == IF Has(entry.device, "status")
                      THEN entry.device.status.tank.temperature ELSE None
    IN  IF structured # None THEN structured
        ELSE IF HasRawTank(entry)
                /\ Has(entry.raw_data.status.tankStatus, "temperatureNow")
             THEN Some(entry.raw_data.status.tankStatus.temperatureNow)
        ELSE None

\* AquareaWaterHeater.target_temperature, in hundredths of a degree
HeaterTargetTemperature(dat, pend, d) ==
    IF pend[d] # None THEN pend[d]
    ELSE IF d \notin DOMAIN dat THEN None
    ELSE
    LET entry == dat[d]
        structured == IF Has(entry.device, "status")
                      THEN entry.device.status.tank.target_temperature ELSE None
    IN  IF structured # None THEN structured
        ELSE IF HasRawTank(entry) /\ Has(entry.raw_data.status.tankStatus, "heatSet")
             THEN Some(entry.raw_data.status.tankStatus.heatSet)
        ELSE None

\* AquareaClimate.hvac_mode: OPERATION_MODE_TO_HVAC_MODE.get(device_info.mode,
\* HVACMode.OFF), modes numbered off 0, heat 1, cool 2, auto 3
ClimateHvacMode(dat, d) ==
    IF d \notin DOMAIN dat THEN None
    ELSE IF dat[d].info.mode \in HvacModes THEN Some(dat[d].info.mode)
    ELSE Some(0)

\* What async_write_ha_state() writes for an entity.
Shown(e, dat, pend) ==
    IF e[2] = "climate"
    THEN [target |-> ClimateTargetTemperature(dat, e[1], ZoneId(e)),
          hvac |-> ClimateHvacMode(dat, e[1])]
    ELSE [target |-> HeaterTargetTemperature(dat, pend, e[1]), hvac |-> None]

\* The estimate with the heater's 3000 W added before the factor 1.3
PowerConsumptionAddFirst(dat, d) ==
    IF d \notin DOMAIN dat \/ ~Has(dat[d].raw_data, "status") THEN None
    ELSE
    LET status == dat[d].raw_data.status
        operation_mode == Get(status, "operationMode", 0)
        pump_duty == Get(status, "pumpDuty", 0)
        base == CASE operation_mode = 0 -> STANDBY_POWER
                  [] operation_mode = 1 -> HEAT_POWER + pump_duty * HEAT_POWER_PER_DUTY
                  [] operation_mode = 2 -> COOL_POWER + pump_duty * COOL_POWER_PER_DUTY
                  [] OTHER -> OTHER_POWER
        heated == IF Get(status, "forceHeater", 0) = 1 THEN base + HEATER_POWER ELSE base
    IN  Some(IF Get(status, "powerful", 0) = 1 THEN heated * 13 ELSE heated * 10)

\* AquareaPowerConsumptionSensor.native_value, in tenths of a watt: the
\* result is round(base_power, 1), and base_power * 1.3 is base * 13 tenths.
PowerConsumption(dat, d) ==
    IF d \notin DOMAIN dat \/ ~Has(dat[d].raw_data, "status") THEN None
    ELSE
    LET status == dat[d].raw_data.status
        operation_mode == Get(status, "operationMode", 0)
        pump_duty == Get(status, "pumpDuty", 0)
        base == CASE operation_mode = 0 -> STANDBY_POWER
                  [] operation_mode = 1 -> HEAT_POWER + pump_duty * HEAT_POWER_PER_DUTY
                  [] operation_mode = 2 -> COOL_POWER + pump_duty * COOL_POWER_PER_DUTY
                  [] OTHER -> OTHER_POWER
        scaled == IF Get(status, "powerful", 0) = 1 THEN base * 13 ELSE base * 10
    IN  Some(IF Get(status, "forceHeater", 0) = 1 THEN scaled + HEATER_POWER * 10
             ELSE scaled)

----------------------------------------------------------------------------
(* _async_update_data: one poll cycle *)

\* The device_info object get_devices() returns for a device.
InfoOf(d) ==
    [device_id |-> d, mode |-> remote[d].mode,
     has_tank |-> shape[d].has_tank, zones |-> shape[d].zones]

\* devices_info as a list, in the order the service enumerates the devices.
Enumerate(devs) ==
    LET ids == SelectSeq(DevOrder, LAMBDA d : d \in devs)
    IN  [i \in 1..Len(ids) |-> InfoOf(ids[i])]

Kept == [kept |-> TRUE]

\* The JSON document the service returns for device d: the zones its manifest
\* declares, and the tank block when it has a tank.
Upstream(d) ==
    LET st == DocOf(remote[d]).status
        declared == SelectSeq(Listed(shape[d], st.zoneStatus, <<Zone2Doc>>),
                              LAMBDA z : z.zoneId \in shape[d].zones)
        zs == [i \in 1..Len(declared) |->
                  [k \in DOMAIN declared[i] \ shape[d].omits |-> declared[i][k]]]
    IN  IF "status" \in shape[d].omits THEN [a2wName |-> "Aquarea"]
        ELSE IF shape[d].has_tank
        THEN [status |-> [operationMode |-> st.operationMode, zoneStatus |-> zs,
                          tankStatus |-> st.tankStatus]]
        ELSE [status |-> [operationMode |-> st.operationMode, zoneStatus |-> zs]]

\* The test under which a dict found in an attribute is taken as the JSON
IsResponse(doc) == Has(doc, "status") \/ Has(doc, "a2wName")

\* The entry the cycle publishes for a fetched device.  rawRef tells whether
\* raw_data is the very dict object held in _captured_json_responses
\* ("captured") or an object of its own ("own").
NewEntry(info, raw, ref) ==
    [info |-> info,
     device |-> DeviceOf(remote[info.device_id], shape[info.device_id]),
     raw_data |-> raw,
     rawRef |-> ref]

\* devices_data as returned: a device whose fetch failed keeps the entry
\* object that self.data holds for it.
Resolve(a, old) ==
    [d \in DOMAIN a |-> IF Has(a[d], "kept") THEN old[d] ELSE a[d]]

\* Consecutive cycles in which the enumeration did not list a device.
Missed(devs) ==
    [d \in Dev |-> IF d \in devs THEN 0
                   ELSE IF cycle.missed[d] < MaxPolls THEN cycle.missed[d] + 1
                   ELSE cycle.missed[d]]

\* The refresh a command asked for starts with the next cycle, is done when
\* that cycle has published, and is past when a later cycle starts.
ConfStart(l, started) ==
    [e \in Ent |->
        [l[e] EXCEPT !.conf = CASE l[e].conf = "requested" ->
                                     IF started THEN "running" ELSE "failed"
                                [] l[e].conf = "done" -> "past"
                                [] OTHER -> l[e].conf]]

ConfDone(l) ==
    [e \in Ent |-> [l[e] EXCEPT !.conf = IF l[e].conf = "running" THEN "done"
                                         ELSE l[e].conf]]

\* The coordinator replaces self.data by the returned devices_data and calls
\* its listeners: every entity writes its state.
Publish(newData, ok, failed, fetched, missed) ==
    /\ data' = newData
    /\ ha' = [e \in Ent |-> Shown(e, newData, pending)]
    /\ cycle' = [result |-> "published", listed |-> cycle.listed, ok |-> ok,
                 failed |-> failed, prev |-> data, fetched |-> fetched,
                 missed |-> missed]
    /\ polling' = FALSE
    /\ todo' = << >>
    /\ acc' = EmptyDict

\* await self.client.get_devices() returns the devices devs.
PollStart(devs) ==
    /\ ~polling
    /\ budget.polls > 0
    /\ budget' = [budget EXCEPT !.polls = @ - 1]
    /\ refreshReq' = FALSE
    /\ IF devs = {}
       THEN /\ data' = EmptyDict
            /\ ha' = [e \in Ent |-> Shown(e, EmptyDict, pending)]
            /\ cycle' = [result |-> "published", listed |-> {}, ok |-> {},
                         failed |-> {}, prev |-> data, fetched |-> EmptyDict,
                         missed |-> Missed(devs)]
            /\ last' = ConfDone(ConfStart(last, TRUE))
            /\ UNCHANGED <<polling, todo, acc>>
       ELSE /\ polling' = TRUE
            /\ todo' = Enumerate(devs)
            /\ acc' = EmptyDict
            /\ cycle' = [cycle EXCEPT !.result = "running", !.listed = devs,
                                      !.ok = {}, !.failed = {},
                                      !.fetched = EmptyDict,
                                      !.missed = Missed(devs)]
            /\ last' = ConfStart(last, TRUE)
            /\ UNCHANGED <<data, ha>>
    /\ UNCHANGED <<remote, shape, preset, captured, pending, cmd, calls>>

\* A listing failure that publishes an empty store
PollListFailsClearing ==
    /\ ~polling
    /\ budget.polls > 0
    /\ budget' = [budget EXCEPT !.polls = @ - 1]
    /\ refreshReq' = FALSE
    /\ cycle' = [cycle EXCEPT !.result = "update_failed", !.listed = {},
                              !.ok = {}, !.failed = {}, !.prev = data,
                              !.fetched = EmptyDict]
    /\ last' = ConfStart(last, FALSE)
    /\ data' = EmptyDict
    /\ UNCHANGED <<acc, todo, polling, remote, shape, preset, captured, pending,
                   cmd, calls, ha>>

\* await self.client.get_devices() raises ClientError: UpdateFailed, the
\* coordinator keeps self.data.
PollListFails ==
    /\ ~polling
    /\ budget.polls > 0
    /\ budget' = [budget EXCEPT !.polls = @ - 1]
    /\ refreshReq' = FALSE
    /\ cycle' = [cycle EXCEPT !.result = "update_failed", !.listed = {},
                              !.ok = {}, !.failed = {}, !.prev = data,
                              !.fetched = EmptyDict]
    /\ last' = ConfStart(last, FALSE)
    /\ UNCHANGED <<data, acc, todo, polling, remote, shape, preset, captured, pending,
                   cmd, calls, ha>>

\* The body of the per-device try block succeeds for the first device of todo.
\* logged: the aioaquarea logger emitted "Raw JSON response for device ..."
\* during the fetch and AquareaLogCapture.emit stored it.
PollFetchOk(logged) ==
    /\ polling
    /\ todo # << >>
    /\ LET info == Head(todo)
           d == info.device_id
           cap == IF logged THEN Put(captured, d, Upstream(d)) ELSE captured
           old == IF logged /\ d \in DOMAIN data
                  THEN [data EXCEPT ![d].rawRef = "own"] ELSE data
           src == IF shape[d].src = "attr" /\ IsResponse(Upstream(d)) THEN "attr"
                  ELSE IF d \in DOMAIN cap THEN "captured" ELSE "none"
           raw == CASE src = "attr" -> Upstream(d)
                    [] src = "captured" -> cap[d]
                    [] OTHER -> LatestRealData
           ref == IF src = "captured" THEN "captured" ELSE "own"
           a == Put(acc, d, NewEntry(info, raw, ref))
           fetched == Put(cycle.fetched, d, Upstream(d))
       IN  /\ logged => shape[d].src = "log"
           /\ captured' = cap
           /\ IF Tail(todo) = << >>
              THEN /\ Publish(Resolve(a, old), cycle.ok \cup {d}, cycle.failed,
                              fetched, cycle.missed)
                   /\ last' = ConfDone(last)
              ELSE /\ data' = old
                   /\ cycle' = [cycle EXCEPT !.ok = cycle.ok \cup {d},
                                             !.fetched = fetched]
                   /\ todo' = Tail(todo)
                   /\ acc' = a
                   /\ UNCHANGED <<polling, ha, last>>
    /\ UNCHANGED <<refreshReq, remote, shape, preset, pending, cmd, calls,
                   budget>>

\* The per-device try block raises for the first device of todo: the entry of
\* self.data, if there is one, is carried over.
PollFetchFails ==
    /\ polling
    /\ todo # << >>
    /\ LET d == Head(todo).device_id
           a == IF d \in DOMAIN data THEN Put(acc, d, Kept) ELSE acc
       IN  IF Tail(todo) = << >>
           THEN /\ Publish(Resolve(a, data), cycle.ok, cycle.failed \cup {d},
                           cycle.fetched, cycle.missed)
                /\ last' = ConfDone(last)
           ELSE /\ cycle' = [cycle EXCEPT !.failed = cycle.failed \cup {d}]
                /\ todo' = Tail(todo)
                /\ acc' = a
                /\ UNCHANGED <<data, polling, ha, last>>
    /\ UNCHANGED <<refreshReq, remote, shape, preset, captured, pending, cmd, calls,
                   budget>>

----------------------------------------------------------------------------
(* Commands of the entities *)

\* Temperatures a caller may pass (hundredths of a degree): the bounds of both
\* ranges, their outer neighbours, and values inside.
ZoneTempInputs == {Deg(ZONE_MIN) - 1, Deg(ZONE_MIN), 2155, Deg(ZONE_MAX), Deg(ZONE_MAX) + 1}
TankTempInputs == {Deg(TANK_MIN) - 1, Deg(TANK_MIN), Deg(TANK_MAX), Deg(TANK_MAX) + 1}
HvacInputs == {0, 2, 4}

\* A validation that turns the lower boundary away
ClimateTempValidOpen(t) == ~(t <= Deg(ZONE_MIN) \/ t > Deg(ZONE_MAX))

\* "if temperature < -5 or temperature > 30: return"
ClimateTempValid(t) == ~(t < Deg(ZONE_MIN) \/ t > Deg(ZONE_MAX))

\* "if temperature < 40 or temperature > 75: return"
TankTempValid(t) == ~(t < Deg(TANK_MIN) \/ t > Deg(TANK_MAX))

\* int(temperature * 10): truncation toward zero, in tenths
IntTenths(t) == IF t >= 0 THEN t \div 10 ELSE -((-t) \div 10)

\* A write that adds the new offset to the heatSet already there
ClimateTempWriteAdding(entry, id, t) ==
    LET zs == entry.raw_data.status.zoneStatus
        i == FindZone(zs, id)
        current_temp == Get(zs[i], "temperatureNow", DEFAULT_TEMP_NOW)
        heat_offset == IntTenths(t) - current_temp
    IN  [entry EXCEPT !.raw_data.status.zoneStatus[i] =
            Put(zs[i], "heatSet", Get(zs[i], "heatSet", 0) + heat_offset)]

\* The optimistic write of AquareaClimate.async_set_temperature
ClimateTempWrite(entry, id, t) ==
    LET zs == entry.raw_data.status.zoneStatus
        i == FindZone(zs, id)
        current_temp == Get(zs[i], "temperatureNow", DEFAULT_TEMP_NOW)
        heat_offset == IntTenths(t) - current_temp
    IN  [entry EXCEPT !.raw_data.status.zoneStatus[i] = Put(zs[i], "heatSet", heat_offset)]

\* The optimistic write of AquareaClimate.async_set_hvac_mode
HvacWrite(entry, id, m) ==
    LET st == Put(entry.raw_data.status, "operationMode", m)
        i == IF Has(st, "zoneStatus") THEN FindZone(st.zoneStatus, id) ELSE 0
        st2 == IF i = 0 THEN st
               ELSE [st EXCEPT !.zoneStatus[i] =
                        Put(st.zoneStatus[i], "operationStatus", IF m # 0 THEN 1 ELSE 0)]
    IN  [entry EXCEPT !.raw_data.status = st2]

\* The optimistic write of AquareaWaterHeater.async_set_temperature
TankTempWrite(entry, t) ==
    LET e1 == [entry EXCEPT !.raw_data.status.tankStatus =
                  Put(entry.raw_data.status.tankStatus, "heatSet", t)]
    IN  IF Has(entry.device, "status")
        THEN [e1 EXCEPT !.device.status.tank.target_temperature = Some(t)]
        ELSE e1

\* The optimistic write of AquareaWaterHeater.async_turn_on / async_turn_off
TankPowerWrite(entry, on) ==
    [entry EXCEPT !.raw_data.status.tankStatus =
        Put(entry.raw_data.status.tankStatus, "operationStatus", IF on THEN 1 ELSE 0)]

\* The guard of the optimistic write of each command
Writable(kind, entry, id) ==
    CASE kind = "zone_temp" ->
            HasRawZones(entry) /\ FindZone(entry.raw_data.status.zoneStatus, id) # 0
      [] kind = "hvac" -> Has(entry.raw_data, "status")
      [] OTHER -> HasRawTank(entry)

\* A handler that goes on to its remote operations without the local write
NotWritten(kind, entry, id, arg) == entry

Written(kind, entry, id, arg) ==
    CASE kind = "zone_temp" -> ClimateTempWrite(entry, id, arg)
      [] kind = "hvac" -> HvacWrite(entry, id, arg)
      [] kind = "tank_temp" -> TankTempWrite(entry, arg)
      [] kind = "tank_on" -> TankPowerWrite(entry, TRUE)
      [] OTHER -> TankPowerWrite(entry, FALSE)

\* The value a command writes into its field of the raw status
FieldOf(kind, entry, id) ==
    LET st == entry.raw_data.status
    IN  CASE kind = "zone_temp" -> st.zoneStatus[FindZone(st.zoneStatus, id)].heatSet
          [] kind = "hvac" -> st.operationMode
          [] kind = "tank_temp" -> st.tankStatus.heatSet
          [] OTHER -> st.tankStatus.operationStatus

\* hasattr(device, name) for the names of a candidate list
Avail(cands, d) == SelectSeq(cands, LAMBDA m : m \in shape[d].methods)

First(s) == IF s = << >> THEN << >> ELSE <<Head(s)>>

\* The remote operations a command awaits, in order, as long as each raises.
\* The climate and on/off handlers loop over their lists with try/except
\* inside the loop; the tank temperature handler has one if/elif chain inside
\* one try for the device and one for device.status.tank.
Plan(kind, d, entry) ==
    LET sub(cands) == IF Has(entry.device, "status") THEN Avail(cands, d) ELSE << >>
    IN  CASE kind = "zone_temp" ->
                Avail(ClimateTempDeviceMethods, d) \o
                (IF Has(entry.device, "status")
                    /\ Len(entry.device.status.zones) > ZoneId(<<d, "climate">>) - 1
                 THEN Avail(ClimateTempZoneMethods, d) ELSE << >>)
          [] kind = "hvac" -> Avail(HvacDeviceMethods, d)
          [] kind = "tank_temp" ->
                First(Avail(TankTempDeviceMethods, d)) \o First(sub(TankTempTankMethods))
          [] kind = "tank_on" -> Avail(TankOnDeviceMethods, d) \o sub(TankOnTankMethods)
          [] OTHER -> Avail(TankOffDeviceMethods, d) \o sub(TankOffTankMethods)

\* The zone id of the structured zone on which a zone-level setter is
\* invoked, "zone = zones[self._zone_id - 1]"; 0 for a device-level setter.
SetterZone(e, m) ==
    IF cmd[e].kind = "zone_temp"
       /\ \E i \in 1..Len(ClimateTempZoneMethods) : ClimateTempZoneMethods[i] = m
    THEN DeviceOf(remote[e[1]], shape[e[1]]).status.zones[ZoneId(e)].zone_id
    ELSE 0

\* The effect of a remote operation that succeeds
RemoteApply(kind, arg, r) ==
    CASE kind = "zone_temp" -> [r EXCEPT !.zSet = IntTenths(arg) - r.zNow]
      [] kind = "hvac" -> [r EXCEPT !.mode = arg]
      [] kind = "tank_temp" -> [r EXCEPT !.tSet = arg]
      [] kind = "tank_on" -> [r EXCEPT !.tOp = 1]
      [] OTHER -> [r EXCEPT !.tOp = 0]

\* asyncio.sleep() before the refresh that follows a successful operation
SettleDelay(kind) == IF kind = "tank_temp" THEN SETTLE_TANK_TEMP ELSE SETTLE_DEFAULT

Idle == [pc |-> "idle", kind |-> "none", arg |-> 0, plan |-> << >>]

NoCmd == [kind |-> "none", arg |-> 0, outcome |-> "none", ok |-> FALSE,
          conf |-> "none", delay |-> 0]

\* The branch taken when no remote operation succeeded: the tank temperature
\* handler caches the value in _pending_temperature and asks for no refresh,
\* the others await coordinator.async_request_refresh().
GiveUp(e, kind, arg, l) ==
    /\ cmd' = [cmd EXCEPT ![e] = Idle]
    /\ IF kind = "tank_temp"
       THEN /\ pending' = [pending EXCEPT ![e[1]] = Some(arg)]
            /\ last' = [l EXCEPT ![e].conf = "none"]
            /\ UNCHANGED refreshReq
       ELSE /\ refreshReq' = TRUE
            /\ last' = [l EXCEPT ![e].conf = "requested"]
            /\ UNCHANGED pending

\* A write to the entry object that was looked up before the latest cycle
\* replaced the store: it lands in the replaced object, which nobody reads.
WriteEntryStale(d, ne) ==
    /\ data' = IF cycle.result = "published" /\ d \in DOMAIN cycle.prev
                THEN data ELSE [data EXCEPT ![d] = ne]
    /\ UNCHANGED <<captured, acc>>

\* An in-place write to the entry object published for d.  The raw_data dict
\* may be the object held in _captured_json_responses, and the entry a running
\* cycle builds from that object shares it too.
WriteEntry(d, ne) ==
    /\ data' = [data EXCEPT ![d] = ne]
    /\ captured' = IF data[d].rawRef = "captured"
                   THEN [captured EXCEPT ![d] = ne.raw_data] ELSE captured
    /\ acc' = IF /\ d \in DOMAIN acc
                 /\ ~Has(acc[d], "kept")
                 /\ data[d].rawRef = "captured"
                 /\ acc[d].rawRef = "captured"
              THEN [acc EXCEPT ![d].raw_data = ne.raw_data] ELSE acc

\* The outcomes with which a handler raises to its caller.  Every early return
\* of the handlers is a log message followed by a plain return.
RaisingOutcomes == {}

\* A handler from its call to its first await.
Begin(e, kind, arg, valid) ==
    LET d == e[1]
        id == ZoneId(e)
        outcome == IF ~valid THEN "rejected"
                   ELSE IF d \notin DOMAIN data THEN "no_device"
                   ELSE IF ~Writable(kind, data[d], id) THEN "no_data"
                   ELSE "accepted"
        l == [last EXCEPT ![e] = [kind |-> kind, arg |-> arg, outcome |-> outcome,
                                  ok |-> FALSE, conf |-> "none", delay |-> 0]]
    IN  /\ cmd[e].pc = "idle"
        /\ budget.cmds > 0
        /\ budget' = [budget EXCEPT !.cmds = @ - 1]
        /\ calls' = [calls EXCEPT ![e] = << >>]
        /\ IF outcome # "accepted"
           THEN /\ last' = l
                /\ UNCHANGED <<data, captured, acc, ha, cmd, pending, refreshReq>>
           ELSE LET ne == Written(kind, data[d], id, arg)
                    plan == Plan(kind, d, data[d])
                IN  /\ WriteEntry(d, ne)
                    /\ ha' = [ha EXCEPT ![e] = Shown(e, [data EXCEPT ![d] = ne], pending)]
                    /\ IF plan = << >>
                       THEN GiveUp(e, kind, arg, l)
                       ELSE /\ cmd' = [cmd EXCEPT ![e] = [pc |-> "remote", kind |-> kind,
                                                          arg |-> arg, plan |-> plan]]
                            /\ last' = l
                            /\ UNCHANGED <<pending, refreshReq>>
        /\ UNCHANGED <<todo, polling, remote, shape, preset, cycle>>

\* AquareaClimate.async_set_temperature(temperature=t)
ClimateSetTemperature(d, t) ==
    Begin(<<d, "climate">>, "zone_temp", t, ClimateTempValid(t))

\* AquareaClimate.async_set_hvac_mode(m)
ClimateSetHvacMode(d, m) ==
    Begin(<<d, "climate">>, "hvac", m, m \in HvacModes)

\* AquareaWaterHeater.async_set_temperature(temperature=t)
HeaterSetTemperature(d, t) ==
    Begin(<<d, "heater">>, "tank_temp", t, TankTempValid(t))

\* AquareaWaterHeater.async_turn_on / async_turn_off
HeaterTurn(d, on) ==
    Begin(<<d, "heater">>, IF on THEN "tank_on" ELSE "tank_off", 0, TRUE)

\* Candidate loops without "break" and without "if not api_success": the
\* handler goes on to the next candidate after a success as well.
RemoteCallWithoutBreak(e, ok) ==
    /\ cmd[e].pc = "remote"
    /\ LET c == cmd[e]
           m == Head(c.plan)
           l == [last EXCEPT ![e].ok = @ \/ ok]
       IN  /\ calls' = [calls EXCEPT ![e] = Append(@, [m |-> m, ok |-> ok,
                                                        zone |-> SetterZone(e, m)])]
           /\ remote' = IF ok /\ SetterZone(e, m) \in {0, ZoneId(e)} THEN [remote EXCEPT ![e[1]] = RemoteApply(c.kind, c.arg, @)]
                         ELSE remote
           /\ IF Tail(c.plan) # << >>
              THEN /\ cmd' = [cmd EXCEPT ![e].plan = Tail(c.plan)]
                   /\ last' = l
                   /\ UNCHANGED <<pending, refreshReq>>
              ELSE IF l[e].ok
              THEN /\ cmd' = [cmd EXCEPT ![e].pc = "settle", ![e].plan = << >>]
                   /\ last' = l
                   /\ UNCHANGED <<pending, refreshReq>>
              ELSE GiveUp(e, c.kind, c.arg, last)
    /\ UNCHANGED <<data, acc, todo, polling, shape, preset, captured, ha, cycle,
                   budget>>

\* The awaited remote operation returns (ok) or raises (~ok).
RemoteCall(e, ok) ==
    /\ cmd[e].pc = "remote"
    /\ LET c == cmd[e]
           m == Head(c.plan)
           zone == SetterZone(e, m)
       IN  /\ calls' = [calls EXCEPT ![e] = Append(@, [m |-> m, ok |-> ok, zone |-> zone])]
           /\ IF ok
              THEN /\ remote' = IF zone \in {0, ZoneId(e)}
                                THEN [remote EXCEPT ![e[1]] = RemoteApply(c.kind, c.arg, @)]
                                ELSE remote
                   /\ cmd' = [cmd EXCEPT ![e].pc = "settle", ![e].plan = << >>]
                   /\ last' = [last EXCEPT ![e].ok = TRUE]
                   /\ UNCHANGED <<pending, refreshReq>>
              ELSE /\ UNCHANGED remote
                   /\ IF Tail(c.plan) = << >>
                      THEN GiveUp(e, c.kind, c.arg, last)
                      ELSE /\ cmd' = [cmd EXCEPT ![e].plan = Tail(c.plan)]
                           /\ UNCHANGED <<last, pending, refreshReq>>
    /\ UNCHANGED <<data, acc, todo, polling, shape, preset, captured, ha, cycle,
                   budget>>

\* The awaited remote operation neither returns nor raises.  The handlers
\* await it directly ("await method(...)"), so the coroutine stays suspended
\* at that await: no step of the handler is enabled afterwards.
RemoteHangs(e) ==
    /\ cmd[e].pc = "remote"
    /\ cmd' = [cmd EXCEPT ![e].pc = "hung"]
    /\ calls' = [calls EXCEPT ![e] = Append(@, [m |-> Head(cmd[e].plan), ok |-> FALSE,
                                                zone |-> SetterZone(e, Head(cmd[e].plan))])]
    /\ UNCHANGED <<data, acc, todo, polling, refreshReq, remote, shape, preset, captured,
                   pending, ha, last, cycle, budget>>

\* "await asyncio.sleep(...)" is over: coordinator.async_request_refresh()
Settle(e) ==
    /\ cmd[e].pc = "settle"
    /\ cmd' = [cmd EXCEPT ![e] = Idle]
    /\ refreshReq' = TRUE
    /\ last' = [last EXCEPT ![e].conf = "requested",
                            ![e].delay = SettleDelay(cmd[e].kind)]
    /\ UNCHANGED <<data, acc, todo, polling, remote, shape, preset, captured, pending,
                   calls, ha, cycle, budget>>

\* operation_list of the water heater
OperationModes == {"eco", "normal", "comfort", "force_dhw"}

\* AquareaWaterHeater.current_operation
CurrentOperation(dat, d) ==
    IF d \notin DOMAIN dat THEN None
    ELSE IF ~Has(dat[d].raw_data, "status") THEN Some("normal")
    ELSE LET status == dat[d].raw_data.status
         IN  IF Get(status, "forceDHW", 0) # 0 THEN Some("force_dhw")
             ELSE IF Get(status, "ecoMode", 0) # 0 THEN Some("eco")
             ELSE IF Get(status, "comfortMode", 0) # 0 THEN Some("comfort")
             ELSE Some("normal")

\* The tank temperature that goes with a mode: eco and comfort have their own
TankModeWrite(status, m) ==
    IF ~Has(status, "tankStatus") \/ m \notin {"eco", "comfort"} THEN status
    ELSE LET tank == status.tankStatus
             temp == IF m = "eco" THEN Get(tank, "ecoTemp", Deg(ECO_TEMP))
                     ELSE Get(tank, "comfortTemp", Deg(COMFORT_TEMP))
         IN  Put(status, "tankStatus", Put(tank, "heatSet", temp))

\* A write that sets the flag of the mode and leaves the other flags alone
OperationModeWriteKeeping(entry, m) ==
    LET st0 == entry.raw_data.status
        st1 == CASE m = "force_dhw" -> Put(st0, "forceDHW", 1)
                 [] m = "eco" -> Put(st0, "ecoMode", 1)
                 [] m = "comfort" -> Put(st0, "comfortMode", 1)
                 [] OTHER -> st0
    IN  [entry EXCEPT !.raw_data.status = TankModeWrite(st1, m)]

\* The local write of AquareaWaterHeater.async_set_operation_mode
OperationModeWrite(entry, m) ==
    LET st0 == Put(Put(Put(entry.raw_data.status, "forceDHW", 0), "ecoMode", 0),
                   "comfortMode", 0)
        st1 == CASE m = "force_dhw" -> Put(st0, "forceDHW", 1)
                 [] m = "eco" -> Put(st0, "ecoMode", 1)
                 [] m = "comfort" -> Put(st0, "comfortMode", 1)
                 [] OTHER -> st0
    IN  [entry EXCEPT !.raw_data.status = TankModeWrite(st1, m)]

\* AquareaWaterHeater.async_set_operation_mode(m), up to its await of
\* coordinator.async_request_refresh().  The handler calls no remote
\* operation and does not write the entity's state.
HeaterSetOperationMode(d, m) ==
    LET e == <<d, "heater">>
        outcome == IF d \notin DOMAIN data THEN "no_device"
                   ELSE IF ~Has(data[d].raw_data, "status") THEN "no_data"
                   ELSE "accepted"
    IN  /\ cmd[e].pc = "idle"
        /\ budget.cmds > 0
        /\ budget' = [budget EXCEPT !.cmds = @ - 1]
        /\ calls' = [calls EXCEPT ![e] = << >>]
        /\ last' = [last EXCEPT ![e] =
                       [kind |-> "op_mode", arg |-> m, outcome |-> outcome, ok |-> FALSE,
                        conf |-> IF outcome = "accepted" THEN "requested" ELSE "none",
                        delay |-> 0]]
        /\ IF outcome = "accepted"
           THEN /\ WriteEntry(d, OperationModeWrite(data[d], m))
                /\ refreshReq' = TRUE
           ELSE UNCHANGED <<data, captured, acc, refreshReq>>
        /\ UNCHANGED <<todo, polling, remote, shape, preset, pending, cmd, ha, cycle>>

\* The special modes in the order in which async_set_preset_mode resets them,
\* each with its setter
SpecialModes ==
    <<[mode |-> "quiet", setter |-> "set_quiet_mode"],
      [mode |-> "powerful", setter |-> "set_powerful_mode"],
      [mode |-> "force_heater", setter |-> "set_force_heater"],
      [mode |-> "holiday", setter |-> "set_holiday_mode"],
      [mode |-> "eco", setter |-> "set_eco_mode"],
      [mode |-> "comfort", setter |-> "set_comfort_mode"]>>

\* The calls of the handler that may be running at the same time for a device
PresetCalls == 1..MaxPresetCalls

NoPreset == [pc |-> "idle", p |-> "none", plan |-> << >>, sent |-> << >>, before |-> {}]

\* The setter calls async_set_preset_mode(p) awaits, in order: each special
\* mode the device has a setter for is switched off, then the mode p is
\* switched on.
PresetPlan(d, p) ==
    LET has == SelectSeq(SpecialModes, LAMBDA s : s.setter \in shape[d].methods)
        off == [i \in 1..Len(has) |-> [mode |-> has[i].mode, on |-> FALSE]]
        on == SelectSeq(has, LAMBDA s : s.mode = p)
    IN  off \o [i \in 1..Len(on) |-> [mode |-> on[i].mode, on |-> TRUE]]

\* AquareaClimate.async_set_preset_mode(p) is called as call k of device d and
\* runs up to its first await.
PresetStart(d, k, p) ==
    /\ preset[d].call[k].pc = "idle"
    /\ \A j \in PresetCalls : j < k => preset[d].call[j].pc # "idle"
    /\ budget.cmds > 0
    /\ budget' = [budget EXCEPT !.cmds = @ - 1]
    /\ LET plan == PresetPlan(d, p)
           c == [pc |-> "remote", p |-> p, plan |-> plan, sent |-> << >>,
                 before |-> preset[d].enabled]
       IN  IF d \notin DOMAIN data
           THEN /\ preset' = [preset EXCEPT ![d].call[k] = [c EXCEPT !.pc = "returned",
                                                                    !.plan = << >>]]
                /\ UNCHANGED refreshReq
           ELSE IF plan = << >>
           THEN /\ preset' = [preset EXCEPT ![d].call[k] = [c EXCEPT !.pc = "returned"]]
                /\ refreshReq' = TRUE
           ELSE /\ preset' = [preset EXCEPT ![d].call[k] = c]
                /\ UNCHANGED refreshReq
    /\ UNCHANGED <<data, acc, todo, polling, remote, shape, captured, pending, cmd,
                   calls, ha, last, cycle>>

\* The setter call that call k of device d awaits returns (ok) or raises.  A
\* raise ends the handler in its except clause; after the last setter the
\* handler awaits coordinator.async_request_refresh() and returns.
PresetCall(d, k, ok) ==
    LET c == preset[d].call[k]
        s == Head(c.plan)
        enabled == IF ~ok THEN preset[d].enabled
                   ELSE IF s.on THEN preset[d].enabled \cup {s.mode}
                   ELSE preset[d].enabled \ {s.mode}
        sent == Append(c.sent, s)
    IN  /\ c.pc = "remote"
        /\ IF ~ok
           THEN /\ preset' = [preset EXCEPT ![d].call[k] =
                                 [c EXCEPT !.pc = "returned", !.sent = sent]]
                /\ UNCHANGED refreshReq
           ELSE IF Tail(c.plan) = << >>
           THEN /\ preset' = [preset EXCEPT ![d].enabled = enabled,
                                            ![d].call[k] = [c EXCEPT !.pc = "returned",
                                                                    !.plan = << >>,
                                                                    !.sent = sent]]
                /\ refreshReq' = TRUE
           ELSE /\ preset' = [preset EXCEPT ![d].enabled = enabled,
                                            ![d].call[k] = [c EXCEPT !.plan = Tail(c.plan),
                                                                    !.sent = sent]]
                /\ UNCHANGED refreshReq
        /\ UNCHANGED <<data, acc, todo, polling, remote, shape, captured, pending, cmd,
                       calls, ha, last, cycle, budget>>

----------------------------------------------------------------------------
(* The remote side *)

RemoteAlt ==
    [mode |-> 2, zNow |-> 52, zSet |-> 10, zOp |-> 0, tSet |-> Deg(50), tOp |-> 0]

\* The device state changes at the remote service (the user's app, the unit).
RemoteChange(d) ==
    /\ budget.changes > 0
    /\ budget' = [budget EXCEPT !.changes = @ - 1]
    /\ remote[d] # RemoteAlt
    /\ remote' = [remote EXCEPT ![d] = RemoteAlt]
    /\ UNCHANGED <<data, acc, todo, polling, refreshReq, shape, preset, captured, pending,
                   cmd, calls, ha, last, cycle>>

----------------------------------------------------------------------------
(* Specification *)

StartWith(b, shapes) ==
    /\ data = EmptyDict
    /\ acc = EmptyDict
    /\ todo = << >>
    /\ polling = FALSE
    /\ refreshReq = FALSE
    /\ remote = [d \in Dev |-> RemoteInit]
    /\ \E s \in shapes : shape = [d \in Dev |-> s]
    /\ captured = EmptyDict
    /\ pending = [d \in Dev |-> None]
    /\ cmd = [e \in Ent |-> Idle]
    /\ calls = [e \in Ent |-> << >>]
    /\ ha = [e \in Ent |-> [target |-> None, hvac |-> None]]
    /\ last = [e \in Ent |-> NoCmd]
    /\ cycle = [result |-> "none", listed |-> {}, ok |-> {}, failed |-> {},
                prev |-> EmptyDict, fetched |-> EmptyDict,
                missed |-> [d \in Dev |-> 0]]
    /\ budget = b
    /\ preset = [d \in Dev |-> [enabled |-> {}, call |-> [k \in PresetCalls |-> NoPreset]]]

Start(b) == StartWith(b, Shapes)

Init == Start([polls |-> MaxPolls, cmds |-> MaxCmds, changes |-> MaxChanges])

Next ==
    \/ \E devs \in SUBSET Dev : PollStart(devs)
    \/ PollListFails
    \/ \E logged \in BOOLEAN : PollFetchOk(logged)
    \/ PollFetchFails
    \/ \E d \in Dev, t \in ZoneTempInputs : ClimateSetTemperature(d, t)
    \/ \E d \in Dev, m \in HvacInputs : ClimateSetHvacMode(d, m)
    \/ \E d \in Dev, t \in TankTempInputs : HeaterSetTemperature(d, t)
    \/ \E d \in Dev, on \in BOOLEAN : HeaterTurn(d, on)
    \/ \E e \in Ent, ok \in BOOLEAN : RemoteCall(e, ok)
    \/ \E e \in Ent : Settle(e)
    \/ \E d \in Dev : RemoteChange(d)

Spec == Init /\ [][Next]_vars

\* The water heater alone receives set-temperature commands, several in a row.
InitHeater == Start([polls |-> MaxPolls, cmds |-> MaxHeaterCmds, changes |-> 0])

NextHeater ==
    \/ \E devs \in SUBSET Dev : PollStart(devs)
    \/ PollListFails
    \/ \E logged \in BOOLEAN : PollFetchOk(logged)
    \/ PollFetchFails
    \/ \E d \in Dev, t \in TankTempInputs : HeaterSetTemperature(d, t)
    \/ \E e \in Ent, ok \in BOOLEAN : RemoteCall(e, ok)
    \/ \E e \in Ent : Settle(e)

SpecHeater == InitHeater /\ [][NextHeater]_vars

\* Set-temperature commands repeated on a store that one cycle has filled.
InitRepeat == Start([polls |-> MaxRepeatPolls, cmds |-> MaxHeaterCmds, changes |-> 0])

NextRepeat ==
    \/ \E devs \in SUBSET Dev : PollStart(devs)
    \/ PollListFails
    \/ \E logged \in BOOLEAN : PollFetchOk(logged)
    \/ PollFetchFails
    \/ \E d \in Dev, t \in ZoneTempInputs : ClimateSetTemperature(d, t)
    \/ \E d \in Dev, t \in TankTempInputs : HeaterSetTemperature(d, t)
    \/ \E e \in Ent, ok \in BOOLEAN : RemoteCall(e, ok)
    \/ \E e \in Ent : Settle(e)

SpecRepeat == InitRepeat /\ [][NextRepeat]_vars

\* The poll cycle alone, for devices with and without a tank and zones.
InitPoll == StartWith([polls |-> MaxPolls, cmds |-> 0, changes |-> MaxChanges], AllShapes)

NextPoll ==
    \/ \E devs \in SUBSET Dev : PollStart(devs)
    \/ PollListFails
    \/ \E logged \in BOOLEAN : PollFetchOk(logged)
    \/ PollFetchFails
    \/ \E d \in Dev : RemoteChange(d)

SpecPoll == InitPoll /\ [][NextPoll]_vars

\* One set-temperature command whose remote operations return, raise or never
\* return.  Every awaited operation takes one of these three courses, and the
\* event loop resumes a handler whose sleep is over.
InitTimeout == Start([polls |-> MaxTimeoutPolls, cmds |-> MaxCmds, changes |-> 0])

NextTimeout ==
    \/ \E devs \in SUBSET Dev : PollStart(devs)
    \/ PollListFails
    \/ \E logged \in BOOLEAN : PollFetchOk(logged)
    \/ PollFetchFails
    \/ \E d \in Dev, t \in ZoneTempInputs : ClimateSetTemperature(d, t)
    \/ \E d \in Dev, t \in TankTempInputs : HeaterSetTemperature(d, t)
    \/ \E e \in Ent, ok \in BOOLEAN : RemoteCall(e, ok)
    \/ \E e \in Ent : RemoteHangs(e)
    \/ \E e \in Ent : Settle(e)

SpecTimeout ==
    /\ InitTimeout
    /\ [][NextTimeout]_vars
    /\ \A e \in Ent :
          /\ WF_vars((\E ok \in BOOLEAN : RemoteCall(e, ok)) \/ RemoteHangs(e))
          /\ WF_vars(Settle(e))

\* One command of any kind, with the polls that fill the store before it and
\* run beside it.
InitCommand == Start([polls |-> MaxCommandPolls, cmds |-> MaxCmds, changes |-> 0])

NextCommand ==
    \/ \E devs \in SUBSET Dev : PollStart(devs)
    \/ PollListFails
    \/ \E logged \in BOOLEAN : PollFetchOk(logged)
    \/ PollFetchFails
    \/ \E d \in Dev, t \in ZoneTempInputs : ClimateSetTemperature(d, t)
    \/ \E d \in Dev, m \in HvacInputs : ClimateSetHvacMode(d, m)
    \/ \E d \in Dev, t \in TankTempInputs : HeaterSetTemperature(d, t)
    \/ \E d \in Dev, on \in BOOLEAN : HeaterTurn(d, on)
    \/ \E e \in Ent, ok \in BOOLEAN : RemoteCall(e, ok)
    \/ \E e \in Ent : Settle(e)

SpecCommand == InitCommand /\ [][NextCommand]_vars

\* One climate set-temperature command on devices with one or two zones.
InitZones ==
    StartWith([polls |-> MaxZonePolls, cmds |-> MaxCmds, changes |-> 0], ZoneShapes)

NextZones ==
    \/ \E devs \in SUBSET Dev : PollStart(devs)
    \/ PollListFails
    \/ \E logged \in BOOLEAN : PollFetchOk(logged)
    \/ PollFetchFails
    \/ \E d \in Dev, t \in ZoneTempInputs : ClimateSetTemperature(d, t)
    \/ \E e \in Ent, ok \in BOOLEAN : RemoteCall(e, ok)
    \/ \E e \in Ent : Settle(e)

SpecZones == InitZones /\ [][NextZones]_vars

\* Operation-mode commands of the water heater, several in a row.
InitMode == Start([polls |-> MaxModePolls, cmds |-> MaxModeCmds, changes |-> 0])

NextMode ==
    \/ \E devs \in SUBSET Dev : PollStart(devs)
    \/ PollListFails
    \/ \E logged \in BOOLEAN : PollFetchOk(logged)
    \/ PollFetchFails
    \/ \E d \in Dev, m \in OperationModes : HeaterSetOperationMode(d, m)

SpecMode == InitMode /\ [][NextMode]_vars

\* Preset-mode commands of the climate entity, one after another or
\* overlapping: the event loop runs a second service call while the first is
\* suspended at an await.
PresetInputs == {"quiet", "powerful", "normal"}

InitPreset == Start([polls |-> MaxPresetPolls, cmds |-> MaxPresetCalls, changes |-> 0])

NextPreset ==
    \/ \E devs \in SUBSET Dev : PollStart(devs)
    \/ PollListFails
    \/ \E logged \in BOOLEAN : PollFetchOk(logged)
    \/ PollFetchFails
    \/ \E d \in Dev, k \in PresetCalls, p \in PresetInputs : PresetStart(d, k, p)
    \/ \E d \in Dev, k \in PresetCalls, ok \in BOOLEAN : PresetCall(d, k, ok)

SpecPreset == InitPreset /\ [][NextPreset]_vars

\* The poll cycle under the power sensor
InitPower ==
    StartWith([polls |-> MaxPowerPolls, cmds |-> 0, changes |-> MaxChanges], PowerShapes)

NextPower ==
    \/ \E devs \in SUBSET Dev : PollStart(devs)
    \/ PollListFails
    \/ \E logged \in BOOLEAN : PollFetchOk(logged)
    \/ PollFetchFails
    \/ \E d \in Dev : RemoteChange(d)

SpecPower == InitPower /\ [][NextPower]_vars

----------------------------------------------------------------------------
(* Properties *)

\* A multiple of 0.1 degrees
Tenth(t) == t % 10 = 0

\* The optimistic value of e's latest command is (still) what the entry of
\* its device holds: writing it again would change nothing.
Holds(e, dat) ==
    /\ e[1] \in DOMAIN dat
    /\ Writable(last[e].kind, dat[e[1]], ZoneId(e))
    /\ Written(last[e].kind, dat[e[1]], ZoneId(e), last[e].arg) = dat[e[1]]

\* C1: the target temperature the climate entity reads right after the
\* optimistic step of async_set_temperature(t), for t in [-5, 30] and a
\* multiple of 0.1, is t.
C1_TargetIsCommanded ==
    [][\A d \in Dev, t \in ZoneTempInputs :
          ( /\ ClimateSetTemperature(d, t)
            /\ Tenth(t)
            /\ last'[<<d, "climate">>].outcome = "accepted" )
          => ha'[<<d, "climate">>].target = Some(t)]_vars

\* C2: the target temperature the water heater reads right after the
\* optimistic write of a valid set-temperature command is that command's t,
\* whatever commands came before and however their remote calls ended.
C2_LatestTankTarget ==
    [][\A d \in Dev, t \in TankTempInputs :
          ( /\ HeaterSetTemperature(d, t)
            /\ last'[<<d, "heater">>].outcome = "accepted" )
          => ha'[<<d, "heater">>].target = Some(t)]_vars

\* C3: when a command whose remote operations all failed (or that had none)
\* completes, the last step being the refresh it asked for if it asked for
\* one, the store still holds the optimistic value.
C3_NoRollback ==
    [][\A e \in Ent :
          ( /\ last'[e].outcome = "accepted"
            /\ ~last'[e].ok
            /\ cmd'[e].pc = "idle"
            /\ \/ last'[e].conf = "done" /\ last[e].conf = "running"
               \/ last'[e].conf = "none" /\ cmd[e].pc = "remote" )
          => Holds(e, data')]_vars

\* The cycle publishes with this step.
Publishes == cycle'.result = "published" /\ cycle.result # "published"

\* C4: after a remote operation succeeded, the refresh the command asks for
\* comes after the settle delay (1 s, 2 s for the tank temperature), and once
\* it has fetched the device the store holds the value the remote reported.
C4_ConfirmationIsAuthoritative ==
    \A e \in Ent :
        (last[e].ok /\ last[e].conf = "done" /\ e[1] \in cycle.ok)
        => /\ last[e].delay = IF last[e].kind = "tank_temp" THEN 2 ELSE 1
           /\ e[1] \in DOMAIN data
           /\ FieldOf(last[e].kind, data[e[1]], ZoneId(e))
                = FieldOf(last[e].kind, [raw_data |-> cycle.fetched[e[1]]], ZoneId(e))

\* C5: for one device, a poll fetch and a command that is awaiting its remote
\* operations or its settle delay are never in progress at the same time.
C5_PerDeviceExclusion ==
    \A e \in Ent :
        ~(polling /\ todo # << >> /\ Head(todo).device_id = e[1] /\ cmd[e].pc # "idle")

\* The snapshot carries the stale flag.
Stale(entry) == Has(entry, "stale") /\ entry.stale

\* C6: when a cycle in which one device's fetch failed and another's succeeded
\* publishes, the failed device has its previous snapshot with stale = true
\* added and nothing else changed (no snapshot if it had none), and the other
\* device has a snapshot that is not stale.
C6_FailedFetchIsStale ==
    [][(Publishes /\ cycle'.failed # {} /\ cycle'.ok # {}) =>
         \A d \in cycle'.listed :
            IF d \in cycle'.failed
            THEN IF d \in DOMAIN cycle'.prev
                 THEN d \in DOMAIN data'
                      /\ data'[d] = Put(cycle'.prev[d], "stale", TRUE)
                 ELSE d \notin DOMAIN data'
            ELSE d \in DOMAIN data' /\ ~Stale(data'[d])]_vars

\* C7: a device of the store that the enumeration has left out fewer than
\* 3 cycles in a row is still in the store when the cycle publishes.
C7_KeptUntilThirdAbsence ==
    [][Publishes =>
         \A d \in DOMAIN data :
            (d \notin cycle'.listed /\ cycle'.missed[d] < 3) => d \in DOMAIN data']_vars

Offered(kind, d) ==
    LET sub(cands) == IF shape[d].structured THEN Avail(cands, d) ELSE << >>
    IN  CASE kind = "zone_temp" ->
                Avail(ClimateTempDeviceMethods, d) \o sub(ClimateTempZoneMethods)
          [] kind = "hvac" -> Avail(HvacDeviceMethods, d)
          [] kind = "tank_temp" ->
                Avail(TankTempDeviceMethods, d) \o sub(TankTempTankMethods)
          [] kind = "tank_on" -> Avail(TankOnDeviceMethods, d) \o sub(TankOnTankMethods)
          [] kind = "tank_off" -> Avail(TankOffDeviceMethods, d) \o sub(TankOffTankMethods)
          [] OTHER -> << >>

\* C9: a command that ended without any remote operation succeeding has
\* attempted every candidate its device offers, each after the one before it
\* raised.
C9_AllCandidatesTried ==
    \A e \in Ent :
        (last[e].outcome = "accepted" /\ ~last[e].ok /\ cmd[e].pc = "idle")
        => [i \in 1..Len(calls[e]) |-> calls[e][i].m] = Offered(last[e].kind, e[1])

\* C10: when a cycle that fetched the device publishes after a temperature
\* command whose remote operations all failed, the target the entity shows is
\* the remote one again.
C10_RemoteReplacesOptimistic ==
    [][Publishes =>
         \A e \in Ent :
            ( /\ last[e].kind \in {"zone_temp", "tank_temp"}
              /\ last[e].outcome = "accepted"
              /\ ~last[e].ok
              /\ cmd[e].pc = "idle"
              /\ e[1] \in cycle'.ok )
            => ha'[e].target =
                 IF e[2] = "climate"
                 THEN Some((remote[e[1]].zNow + remote[e[1]].zSet) * 10)
                 ELSE Some(remote[e[1]].tSet)]_vars

C13_UnknownDeviceIsError ==
    [][\A d \in Dev :
          d \notin DOMAIN data =>
            /\ \A t \in ZoneTempInputs :
                  (ClimateTempValid(t) /\ ClimateSetTemperature(d, t))
                  => /\ last'[<<d, "climate">>].outcome \in RaisingOutcomes
                     /\ UNCHANGED <<data, remote>>
            /\ \A m \in HvacInputs :
                  (m \in HvacModes /\ ClimateSetHvacMode(d, m))
                  => /\ last'[<<d, "climate">>].outcome \in RaisingOutcomes
                     /\ UNCHANGED <<data, remote>>
            /\ \A t \in TankTempInputs :
                  (TankTempValid(t) /\ HeaterSetTemperature(d, t))
                  => /\ last'[<<d, "heater">>].outcome \in RaisingOutcomes
                     /\ UNCHANGED <<data, remote>>
            /\ \A on \in BOOLEAN :
                  HeaterTurn(d, on)
                  => /\ last'[<<d, "heater">>].outcome \in RaisingOutcomes
                     /\ UNCHANGED <<data, remote>>]_vars

\* C14: the hvac_mode the climate entity reads right after the optimistic
\* step of async_set_hvac_mode(m), m one of off, heat, cool, auto, is m.
C14_HvacModeIsCommanded ==
    [][\A d \in Dev, m \in HvacInputs :
          ( /\ ClimateSetHvacMode(d, m)
            /\ last'[<<d, "climate">>].outcome = "accepted" )
          => ha'[<<d, "climate">>].hvac = Some(m)]_vars

\* C15: every device of the store carries tank data exactly when its hasTank
\* flag is true.
C15_TankIffHasTank ==
    \A d \in DOMAIN data : HasRawTank(data[d]) <=> data[d].info.has_tank

\* C16: every zone of a device of the store has a zone id that the device's
\* zone manifest declares.
C16_ZonesAreDeclared ==
    \A d \in DOMAIN data :
        HasRawZones(data[d]) =>
            \A i \in 1..Len(data[d].raw_data.status.zoneStatus) :
                data[d].raw_data.status.zoneStatus[i].zoneId \in data[d].info.zones

\* Raw zone values (temperatureNow, heatSet), in tenths
ZoneSamples == {<<56, 5>>, <<49, -99>>, <<200, 0>>, <<-30, 25>>}

\* The store with the raw values of zone 1 of device d replaced by (a, h)
WithZone(d, a, h) ==
    LET zs == data[d].raw_data.status.zoneStatus
        i == FindZone(zs, 1)
    IN  [data EXCEPT ![d].raw_data.status.zoneStatus[i] =
            Put(Put(zs[i], "temperatureNow", a), "heatSet", h)]

HasZone1(d) ==
    HasRawZones(data[d]) /\ FindZone(data[d].raw_data.status.zoneStatus, 1) # 0

\* The optional fields that the raw document of zone 1 of device d carries
ZoneFields(d) ==
    DOMAIN data[d].raw_data.status.zoneStatus[
               FindZone(data[d].raw_data.status.zoneStatus, 1)]
        \cap {"temperatureNow", "heatSet"}

\* C17: for a device without structured status whose raw zone has
\* temperatureNow = a and heatSet = h (tenths), the climate entity's current
\* temperature is a/10 and its target (a+h)/10, so 5.6 and 6.1 for a = 56 and
\* h = 5; the water heater's temperatures are the raw tank values undivided.
C17_Units ==
    \A d \in DOMAIN data :
        ~Has(data[d].device, "status") =>
          /\ (HasZone1(d) /\ ZoneFields(d) = {"temperatureNow", "heatSet"}) =>
                LET z == data[d].raw_data.status.zoneStatus[
                             FindZone(data[d].raw_data.status.zoneStatus, 1)]
                IN  /\ ClimateCurrentTemperature(data, d, 1) = Some(z.temperatureNow * 10)
                    /\ ClimateTargetTemperature(data, d, 1)
                         = Some((z.temperatureNow + z.heatSet) * 10)
                    /\ \A s \in ZoneSamples :
                         /\ ClimateCurrentTemperature(WithZone(d, s[1], s[2]), d, 1)
                              = Some(s[1] * 10)
                         /\ ClimateTargetTemperature(WithZone(d, s[1], s[2]), d, 1)
                              = Some((s[1] + s[2]) * 10)
                    /\ ClimateCurrentTemperature(WithZone(d, 56, 5), d, 1) = Some(560)
                    /\ ClimateTargetTemperature(WithZone(d, 56, 5), d, 1) = Some(610)
          /\ (HasRawTank(data[d]) /\ pending[d] = None) =>
                /\ HeaterCurrentTemperature(data, d)
                     = Some(data[d].raw_data.status.tankStatus.temperatureNow)
                /\ HeaterTargetTemperature(data, pending, d)
                     = Some(data[d].raw_data.status.tankStatus.heatSet)

\* The store holds a device without structured status whose zone and tank the
\* service reported after a change at the remote side (5.2 C + 1.0, tank 50).
C17_Witness ==
    \E d \in DOMAIN data :
        /\ ~Has(data[d].device, "status")
        /\ HasZone1(d) /\ HasRawTank(data[d])
        /\ ClimateCurrentTemperature(data, d, 1) = Some(520)
        /\ ClimateTargetTemperature(data, d, 1) = Some(620)
        /\ HeaterTargetTemperature(data, pending, d) = Some(5000)

\* C18: for every device of the store whose raw zone document lacks an
\* optional field, the values published for the zone are still defined: the
\* climate entity's target and current temperature and the temperature
\* sensor's value are never null.
C18_NeverNull ==
    \A d \in DOMAIN data :
        HasZone1(d) =>
            /\ ClimateTargetTemperature(data, d, 1) # None
            /\ ClimateCurrentTemperature(data, d, 1) # None
            /\ TemperatureSensorNativeValue(data, d, 1) # None

\* Operation b stands before operation a in the candidate order plan
Before(plan, b, a) ==
    \E i, j \in 1..Len(plan) : i < j /\ plan[i] = b /\ plan[j] = a

\* C19: when the previous set-temperature command of an entity saw operation
\* opA fail and afterwards operation opB succeed, the next set-temperature
\* command of that entity has both among its candidates, opB before opA.
C19_SucceededBeforeFailed ==
    [][\A e \in Ent :
          (/\ \/ \E t \in ZoneTempInputs : ClimateSetTemperature(e[1], t) /\ e[2] = "climate"
              \/ \E t \in TankTempInputs : HeaterSetTemperature(e[1], t) /\ e[2] = "heater"
           /\ cmd'[e].pc = "remote")
          => \A i, j \in 1..Len(calls[e]) :
                (i < j /\ ~calls[e][i].ok /\ calls[e][j].ok)
                => Before(cmd'[e].plan, calls[e][j].m, calls[e][i].m)]_vars

\* C20: every command that awaits a remote operation eventually completes,
\* also when an operation never returns: the handler leaves the await.
C20_EveryCommandCompletes ==
    \A e \in Ent : (cmd[e].pc = "remote") ~> (cmd[e].pc = "idle")

\* Entity e's handler is called (any command, any argument)
Called(e) ==
    \/ e[2] = "climate" /\ \E t \in ZoneTempInputs : ClimateSetTemperature(e[1], t)
    \/ e[2] = "climate" /\ \E m \in HvacInputs : ClimateSetHvacMode(e[1], m)
    \/ e[2] = "heater" /\ \E t \in TankTempInputs : HeaterSetTemperature(e[1], t)
    \/ e[2] = "heater" /\ \E on \in BOOLEAN : HeaterTurn(e[1], on)

\* The value the command kind(arg) is to leave in its field of the raw status
Commanded(kind, arg, before, id) ==
    CASE kind = "zone_temp" ->
            LET zs == before.raw_data.status.zoneStatus
            IN  IntTenths(arg) - Get(zs[FindZone(zs, id)], "temperatureNow", DEFAULT_TEMP_NOW)
      [] kind \in {"hvac", "tank_temp"} -> arg
      [] kind = "tank_on" -> 1
      [] OTHER -> 0

\* C21: a command runs validation, local write, remote operations, refresh
\* request in this order: a call turned away by validation writes nothing and
\* starts nothing; when the handler reaches its remote operations the entry
\* already holds the commanded value; a remote operation is awaited only
\* after the write and before any refresh request of that command; and the
\* step that requests the refresh ends the command, with no candidate left
\* unless one has succeeded.
C21_StepOrder ==
    [][\A e \in Ent :
          /\ (Called(e) /\ last'[e].outcome # "accepted")
                => UNCHANGED <<data, cmd, refreshReq, remote>>
          /\ (Called(e) /\ last'[e].outcome = "accepted")
                => /\ Writable(last'[e].kind, data'[e[1]], ZoneId(e))
                   /\ FieldOf(last'[e].kind, data'[e[1]], ZoneId(e))
                        = Commanded(last'[e].kind, last'[e].arg, data[e[1]], ZoneId(e))
                   /\ UNCHANGED remote
          /\ (\E ok \in BOOLEAN : RemoteCall(e, ok))
                => last[e].outcome = "accepted" /\ last[e].conf = "none"
          /\ (last'[e].conf = "requested" /\ last[e].conf # "requested")
                => /\ cmd'[e].pc = "idle"
                   /\ refreshReq'
                   /\ last'[e].ok \/ Len(cmd[e].plan) <= 1]_vars

\* A command has run through all four steps: accepted, a remote operation
\* failed, a later one succeeded, and the refresh has been requested.
C21_Witness ==
    \E e \in Ent :
        /\ last[e].outcome = "accepted" /\ last[e].ok
        /\ last[e].conf = "requested"
        /\ Len(calls[e]) = 2
        /\ cmd[e].pc = "idle"

\* C22: within one command at most one remote operation succeeds and it is
\* the last one invoked: no remote operation is invoked after a success.
C22_StopAtFirstSuccess ==
    \A e \in Ent :
        \A i \in 1..Len(calls[e]) : calls[e][i].ok => i = Len(calls[e])

\* A command has ended with a success although its device offers candidates
\* the handler has not invoked.
C22_Witness ==
    \E e \in Ent :
        /\ cmd[e].pc = "idle" /\ last[e].ok
        /\ calls[e] # << >> /\ calls[e][Len(calls[e])].ok
        /\ Len(Offered(last[e].kind, e[1])) > Len(calls[e])

\* C23: the local write of an accepted command is made to the entry that the
\* store publishes for the device when the handler is called: after the step
\* the published entry is that entry with the command's write applied, and
\* the state the entity writes is read from it.
C23_WriteToPublishedEntry ==
    [][\A e \in Ent :
          (Called(e) /\ last'[e].outcome = "accepted")
          => /\ data'[e[1]] = Written(last'[e].kind, data[e[1]], ZoneId(e), last'[e].arg)
             /\ \A d \in DOMAIN data \ {e[1]} : data'[d] = data[d]
             /\ DOMAIN data' = DOMAIN data
             /\ ha'[e] = Shown(e, data', pending)]_vars

\* A command has been accepted after a second cycle replaced the entry of its
\* device, and the entry now published holds the command's value.
C23_Witness ==
    \E e \in Ent :
        /\ last[e].outcome = "accepted"
        /\ cycle.result = "published" /\ e[1] \in DOMAIN cycle.prev
        /\ budget.polls = 0 /\ ~polling
        /\ cmd[e].pc = "remote"
        /\ Holds(e, data)
        /\ data[e[1]] # cycle.prev[e[1]]

\* C24: the step of a command that makes the local write leaves the cache of
\* captured responses, from which later polls take their input, as it was.
C24_CommandLeavesCapturedAlone ==
    [][\A e \in Ent : Called(e) => captured' = captured]_vars

\* C25: every zone-level setter that a climate set-temperature command
\* invokes is invoked on the structured zone whose zone id is the entity's.
C25_SetterOnOwnZone ==
    \A e \in Ent :
        \A i \in 1..Len(calls[e]) :
            calls[e][i].zone # 0 => calls[e][i].zone = ZoneId(e)

\* C26: every entry of the store, whichever source its raw_data came from,
\* has a raw_data with a 'status' map.
C26_RawDataHasStatus ==
    \A d \in DOMAIN data : Has(data[d].raw_data, "status")

\* The priority order of the tank temperature setters as the claim has it
TankSetterPriority ==
    <<"set_dhw_target_temperature", "set_tank_target_temperature", "set_temperature",
      "tank.set_target_temperature">>

\* C27: the setters a tank target-temperature command invokes are, in this
\* order, the first ones of set_dhw_target_temperature,
\* set_tank_target_temperature, set_temperature, tank.set_target_temperature
\* that the device offers.
C27_TankSetterOrder ==
    \A d \in Dev :
        LET e == <<d, "heater">>
            offered == SelectSeq(TankSetterPriority, LAMBDA m : m \in shape[d].methods)
        IN  last[e].kind = "tank_temp" =>
               /\ Len(calls[e]) <= Len(offered)
               /\ \A i \in 1..Len(calls[e]) : calls[e][i].m = offered[i]

\* The special-mode flags that are set in a raw status
FlagsSet(status) ==
    {f \in {"forceDHW", "ecoMode", "comfortMode"} : Get(status, f, 0) # 0}

\* C28: right after the local write of async_set_operation_mode(m) on a
\* device with raw tank status, at most one of forceDHW, ecoMode and
\* comfortMode is set and current_operation is m, for each of the four modes.
C28_OneModeFlag ==
    [][\A d \in Dev, m \in OperationModes :
          (HeaterSetOperationMode(d, m) /\ d \in DOMAIN data /\ HasRawTank(data[d]))
          => /\ Cardinality(FlagsSet(data'[d].raw_data.status)) <= 1
             /\ CurrentOperation(data', d) = Some(m)]_vars

\* The last of the operation-mode commands, comfort, has made its write on a
\* stored device with a tank.
C28_Witness ==
    \E d \in DOMAIN data :
        /\ HasRawTank(data[d])
        /\ last[<<d, "heater">>].kind = "op_mode" /\ last[<<d, "heater">>].arg = "comfort"
        /\ budget.cmds = 0
        /\ CurrentOperation(data, d) = Some("comfort")
        /\ Get(data[d].raw_data.status, "ecoMode", 1) = 0
        /\ data[d].raw_data.status.tankStatus.heatSet = Deg(COMFORT_TEMP)

\* All six setters of the special modes are there
SupportsAllModes(d) ==
    \A i \in 1..Len(SpecialModes) : SpecialModes[i].setter \in shape[d].methods

\* C29: when a call of async_set_preset_mode returns, on a device with all
\* six setters on which at most one special mode was enabled when the call
\* was made, at most one special mode is enabled at the remote device, and the
\* call has issued no disable call after its enable call.
C29_AtMostOneSpecialMode ==
    [][\A d \in Dev, k \in PresetCalls :
          ( /\ preset'[d].call[k].pc = "returned" /\ preset[d].call[k].pc # "returned"
            /\ SupportsAllModes(d)
            /\ Cardinality(preset'[d].call[k].before) <= 1 )
          => /\ Cardinality(preset'[d].enabled) <= 1
             /\ \A i, j \in 1..Len(preset'[d].call[k].sent) :
                    (preset'[d].call[k].sent[i].on /\ ~preset'[d].call[k].sent[j].on)
                    => j < i]_vars

\* Status values (operationMode, pumpDuty, powerful, forceHeater)
PowerSamples == (0..3) \X {0, 2, 3} \X {0, 1} \X {0, 1}

\* The store with the four status fields of device d set to the values of s
WithPower(d, s) ==
    [data EXCEPT ![d].raw_data.status =
        Put(Put(Put(Put(@, "operationMode", s[1]), "pumpDuty", s[2]), "powerful", s[3]),
            "forceHeater", s[4])]

\* The power in tenths of a watt as the claim computes it: B by mode, times
\* 1.3 if powerful, then plus 3000 if the heater is forced
ClaimedPower(m, dty, pw, f) ==
    LET B == IF m = 0 THEN 50 ELSE IF m = 1 THEN 1500 + 500 * dty
             ELSE IF m = 2 THEN 1200 + 400 * dty ELSE 800
        B2 == IF pw = 1 THEN B * 13 ELSE B * 10
    IN  IF f = 1 THEN B2 + 30000 ELSE B2

\* C30: the power sensor of a stored device with status reports the claimed
\* value for every operationMode, pumpDuty, powerful and forceHeater (2500 W
\* for 1, 2, 0, 0 and 6900 W for 1, 3, 1, 1), and reports no value for a device
\* that is not stored or whose raw_data has no status.
C30_PowerEstimate ==
    /\ \A d \in Dev \ DOMAIN data : PowerConsumption(data, d) = None
    /\ \A d \in DOMAIN data :
          IF ~Has(data[d].raw_data, "status") THEN PowerConsumption(data, d) = None
          ELSE /\ \A s \in PowerSamples :
                    PowerConsumption(WithPower(d, s), d)
                      = Some(ClaimedPower(s[1], s[2], s[3], s[4]))
               /\ PowerConsumption(WithPower(d, <<1, 2, 0, 0>>), d) = Some(25000)
               /\ PowerConsumption(WithPower(d, <<1, 3, 1, 1>>), d) = Some(69000)
               /\ PowerConsumption(data, d)
                    = Some(ClaimedPower(data[d].raw_data.status.operationMode, 0, 0, 0))

\* The store holds a device in cool mode, whose sensor reports 1200 W, beside
\* which no value is reported for a device that is not stored.
C30_Witness ==
    /\ \E d \in DOMAIN data :
          /\ Has(data[d].raw_data, "status")
          /\ data[d].raw_data.status.operationMode = 2
          /\ PowerConsumption(data, d) = Some(12000)
    /\ \E d \in Dev \ DOMAIN data : PowerConsumption(data, d) = None

====
